---- MODULE Spec2Model ----
(***************************************************************************)
(* Model of the IMDb -> JustWatch importers: import_seenlist.main and      *)
(* import_watchlist.main, their row processors, the type mapper of         *)
(* imdb_justwatch_util/shared.py and the JustWatchClient of                *)
(* imdb_justwatch_util/api.py.                                             *)
(*                                                                         *)
(* Text is a sequence of one-character strings, so that strip(), the `in`  *)
(* substring test, split() and int() are computed, not assumed.  A JSON    *)
(* value is a tagged record; a JSON object is a sequence of <<key, value>> *)
(* pairs.  A Python expression that may raise evaluates to [ok, v].        *)
(***************************************************************************)
EXTENDS Integers, Sequences, FiniteSets, TLC

(* ------------------------------ bounds -------------------------------- *)
MaxRows == 2

(* ------------------------------- text --------------------------------- *)
IsSpace(c) == c = " "

RECURSIVE lstrip(_)
lstrip(s) == IF s # <<>> /\ IsSpace(Head(s)) THEN lstrip(Tail(s)) ELSE s

RECURSIVE rstrip(_)
rstrip(s) ==
    IF s # <<>> /\ IsSpace(s[Len(s)]) THEN rstrip(SubSeq(s, 1, Len(s) - 1)) ELSE s

\* str.strip()
strip(s) == rstrip(lstrip(s))

StartsWith(s, p) == Len(p) <= Len(s) /\ SubSeq(s, 1, Len(p)) = p

\* `needle in hay` for str operands: scan hay left to right
RECURSIVE str_contains(_, _)
str_contains(hay, needle) ==
    IF Len(hay) < Len(needle) THEN FALSE
    ELSE IF StartsWith(hay, needle) THEN TRUE
    ELSE str_contains(Tail(hay), needle)

\* str.split(sep)[0] for a one-character separator
RECURSIVE split_first(_, _)
split_first(s, sep) ==
    IF s = <<>> \/ Head(s) = sep THEN <<>>
    ELSE <<Head(s)>> \o split_first(Tail(s), sep)

\* str.lower() / str.upper() on the letters the model uses
LowerOf(c) == CASE c = "U" -> "u" [] c = "S" -> "s" [] c = "M" -> "m"
                [] c = "O" -> "o" [] c = "V" -> "v" [] c = "I" -> "i"
                [] c = "E" -> "e" [] c = "H" -> "h" [] c = "W" -> "w"
                [] OTHER -> c
UpperOf(c) == CASE c = "u" -> "U" [] c = "s" -> "S" [] c = "m" -> "M"
                [] c = "o" -> "O" [] c = "v" -> "V" [] c = "i" -> "I"
                [] c = "e" -> "E" [] c = "h" -> "H" [] c = "w" -> "W"
                [] OTHER -> c
lower(s) == [i \in 1..Len(s) |-> LowerOf(s[i])]
upper(s) == [i \in 1..Len(s) |-> UpperOf(s[i])]

Digits == {"0", "1", "2", "3", "4", "5", "6", "7", "8", "9"}
DigitVal(c) == CASE c = "0" -> 0 [] c = "1" -> 1 [] c = "2" -> 2 [] c = "3" -> 3
                 [] c = "4" -> 4 [] c = "5" -> 5 [] c = "6" -> 6 [] c = "7" -> 7
                 [] c = "8" -> 8 [] c = "9" -> 9

RECURSIVE DigitsVal(_, _)
DigitsVal(s, acc) ==
    IF s = <<>> THEN acc ELSE DigitsVal(Tail(s), 10 * acc + DigitVal(Head(s)))

AllDigits(s) == s # <<>> /\ \A i \in 1..Len(s) : s[i] \in Digits

(* ------------------------ Python values and faults -------------------- *)
None == [t |-> "null"]
JStr(s) == [t |-> "str", s |-> s]
JInt(n) == [t |-> "int", n |-> n]
JList(xs) == [t |-> "list", items |-> xs]
JObj(m) == [t |-> "obj", m |-> m]
EmptyObj == JObj(<<>>)

Ret(v) == [ok |-> TRUE, v |-> v]
Raise == [ok |-> FALSE, v |-> None]

\* bool(v)
Truthy(v) ==
    CASE v.t = "null" -> FALSE
      [] v.t = "str" -> v.s # <<>>
      [] v.t = "int" -> v.n # 0
      [] v.t = "list" -> v.items # <<>>
      [] v.t = "obj" -> v.m # <<>>

HasKey(m, k) == \E i \in 1..Len(m) : m[i][1] = k
ValueOf(m, k) == m[CHOOSE i \in 1..Len(m) : m[i][1] = k][2]

\* v.get(k, default): AttributeError unless v is a dict
dict_get(v, k, default) ==
    IF v.t # "obj" THEN Raise
    ELSE Ret(IF HasKey(v.m, k) THEN ValueOf(v.m, k) ELSE default)

\* v[k] for a str key: KeyError on a dict without k, TypeError on a non-dict
dict_item(v, k) ==
    IF v.t = "obj" /\ HasKey(v.m, k) THEN Ret(ValueOf(v.m, k)) ELSE Raise

\* v[0]: first element of a list, first character of a str, a fault otherwise
first_item(v) ==
    CASE v.t = "list" /\ v.items # <<>> -> Ret(v.items[1])
      [] v.t = "str" /\ v.s # <<>> -> Ret(JStr(<<v.s[1]>>))
      [] OTHER -> Raise

\* int(s) for a str: optional surrounding blanks, optional sign, digits
int_of_str(s) ==
    LET b == strip(s)
        signed == b # <<>> /\ Head(b) \in {"+", "-"}
        d == IF signed THEN Tail(b) ELSE b
    IN IF ~AllDigits(d) THEN Raise
       ELSE Ret(JInt(IF signed /\ Head(b) = "-" THEN 0 - DigitsVal(d, 0)
                     ELSE DigitsVal(d, 0)))

(* ------------------- imdb_justwatch_util/shared.py -------------------- *)
DEFAULT_COUNTRY == <<"U", "S">>
DEFAULT_LANGUAGE == <<"e", "n", "-", "U", "S">>
REQUEST_DELAY_SECONDS == 1

Movie == <<"M", "o", "v", "i", "e">>
Series == <<"S", "e", "r", "i", "e", "s">>
MOVIE == <<"M", "O", "V", "I", "E">>
SHOW == <<"S", "H", "O", "W">>

\* mutants of the mapper: SHOW as a default, and the rules in the other order
map_imdb_type_default_show(imdb_type_str) ==
    IF str_contains(imdb_type_str, Movie) THEN JStr(MOVIE) ELSE JStr(SHOW)

map_imdb_type_series_first(imdb_type_str) ==
    IF str_contains(imdb_type_str, Series) THEN JStr(SHOW)
    ELSE IF str_contains(imdb_type_str, Movie) THEN JStr(MOVIE)
    ELSE None

map_imdb_type_to_justwatch(imdb_type_str) ==
    IF str_contains(imdb_type_str, Movie) THEN JStr(MOVIE)
    ELSE IF str_contains(imdb_type_str, Series) THEN JStr(SHOW)
    ELSE None

(* --------------------- imdb_justwatch_util/api.py --------------------- *)
Bearer == <<"B", "e", "a", "r", "e", "r", " ">>
RefererHead == <<"j", "w", "/">>
RefererTail == <<"/", "w", "l">>

\* JustWatchClient.__init__: a fault (ValueError) when the token is unset or
\* empty, otherwise the client's fields
JustWatchClient(country, language, token) ==
    IF ~Truthy(token) THEN Raise
    ELSE Ret([country |-> country,
              language |-> language,
              auth_token |-> IF StartsWith(token.s, Bearer) THEN token.s
                             ELSE Bearer \o token.s,
              referer |-> RefererHead \o lower(country) \o RefererTail])

\* the four results of requests.post + raise_for_status + response.json
TransportFailures ==
    { [kind |-> k, body |-> None] : k \in {"conn_fail", "http_error", "not_json"} }

\* _make_request: the decoded body, or None for every transport failure
_make_request(outcome) == IF outcome.kind = "json" THEN outcome.body ELSE None

\* get_title_id, request side: the variables of the search query
search_variables(client, title_name, title_type, release_year) ==
    [op |-> "search",
     objectTypes |-> <<upper(title_type)>>,
     searchQuery |-> title_name,
     releaseYear |-> IF Truthy(release_year)
                     THEN [min |-> release_year.n, max |-> release_year.n]
                     ELSE [min |-> 0, max |-> -1],
     hasYear |-> Truthy(release_year),
     language |-> split_first(client.language, "-"),
     country |-> client.country,
     hasCountry |-> TRUE,
     hasLanguage |-> TRUE,
     id |-> None]

\* get_title_id, response side: the identifier, None, or a fault
get_title_id(response_data) ==
    IF ~Truthy(response_data) THEN Ret(None)
    ELSE LET data == dict_get(response_data, "data", EmptyObj) IN
    IF ~data.ok THEN Raise
    ELSE LET popular == dict_get(data.v, "popularTitles", EmptyObj) IN
    IF ~popular.ok THEN Raise
    ELSE LET edges == dict_get(popular.v, "edges", None) IN
    IF ~edges.ok THEN Raise
    ELSE IF ~Truthy(edges.v) THEN Ret(None)
    ELSE LET edge == first_item(edges.v) IN
    IF ~edge.ok THEN Raise
    ELSE LET node == dict_item(edge.v, "node") IN
    IF ~node.ok THEN Raise
    ELSE LET found_id == dict_item(node.v, "id") IN
    IF ~found_id.ok THEN Raise
    ELSE LET content == dict_item(node.v, "content") IN
    IF ~content.ok THEN Raise
    ELSE LET found_title == dict_item(content.v, "title") IN
    IF ~found_title.ok THEN Raise
    ELSE Ret(found_id.v)

\* the success test shared by the two mutations:
\* response_data and response_data.get("data", {}).get(key, {}).get("title")
mutation_result(response_data, key) ==
    IF ~Truthy(response_data) THEN Ret(FALSE)
    ELSE LET data == dict_get(response_data, "data", EmptyObj) IN
    IF ~data.ok THEN [ok |-> FALSE, v |-> FALSE]
    ELSE LET set == dict_get(data.v, key, EmptyObj) IN
    IF ~set.ok THEN [ok |-> FALSE, v |-> FALSE]
    ELSE LET title == dict_get(set.v, "title", None) IN
    IF ~title.ok THEN [ok |-> FALSE, v |-> FALSE]
    ELSE Ret(Truthy(title.v))

watchlist_variables(client, justwatch_id) ==
    [op |-> "add_to_watchlist",
     objectTypes |-> <<>>,
     searchQuery |-> <<>>,
     releaseYear |-> [min |-> 0, max |-> -1],
     hasYear |-> FALSE,
     language |-> <<>>,
     country |-> <<>>,
     hasCountry |-> FALSE,
     hasLanguage |-> FALSE,
     id |-> justwatch_id]

add_to_watchlist(response_data) == mutation_result(response_data, "setInWatchlistV2")

\* mutant: the seenlist mutation shortens the language tag as the search does
seenlist_variables_short_language(client, justwatch_id) ==
    [op |-> "add_to_seenlist",
     objectTypes |-> <<>>,
     searchQuery |-> <<>>,
     releaseYear |-> [min |-> 0, max |-> -1],
     hasYear |-> FALSE,
     language |-> split_first(client.language, "-"),
     country |-> client.country,
     hasCountry |-> TRUE,
     hasLanguage |-> TRUE,
     id |-> justwatch_id]

seenlist_variables(client, justwatch_id) ==
    [op |-> "add_to_seenlist",
     objectTypes |-> <<>>,
     searchQuery |-> <<>>,
     releaseYear |-> [min |-> 0, max |-> -1],
     hasYear |-> FALSE,
     language |-> client.language,
     country |-> client.country,
     hasCountry |-> TRUE,
     hasLanguage |-> TRUE,
     id |-> justwatch_id]

add_to_seenlist(response_data) == mutation_result(response_data, "setInSeenlist")

(* ------------------------- inputs of a run ---------------------------- *)
IMDB_TITLE_COLUMN == "Title"
IMDB_TYPE_COLUMN == "Title Type"
IMDB_YEAR_COLUMN == "Year"
required_columns == <<IMDB_TITLE_COLUMN, IMDB_TYPE_COLUMN, IMDB_YEAR_COLUMN>>

\* os.getenv("JUSTWATCH_AUTH_TOKEN"): unset, empty, bare or already prefixed
Tokens == {None, JStr(<<>>), JStr(<<"k">>), JStr(Bearer \o <<"k">>)}

\* csv_reader.fieldnames: the header row in file order (<<>>: no header)
Headers ==
    { <<>>,
      <<"Const", "Title">>,
      <<"Title", "Year">>,
      <<"Title", "Title Type", "Year">>,
      <<"Const", "Year", "Title Type", "Title">> }

\* cells of a data row, as text
TitleCells == { <<>>, <<" ">>, <<" ", "A">> }
TypeCells ==
    { <<>>,
      Movie,
      <<"t", "v">> \o Series \o <<" ">>,
      <<"m", "o", "v", "i", "e">>,
      <<"S", "h", "o", "r", "t">>,
      Movie \o <<" ">> \o Series,
      Series \o Movie }
YearCells == { <<>>, <<"1", "9", "9", "9">>, <<"0">>, <<"-", "5">>, <<"x">>, <<" ", "7">> }

\* response bodies of the search query
Edge(node) == JObj(<< <<"node", node>> >>)
Node(id) ==
    JObj(<< <<"id", id>>, <<"content", JObj(<< <<"title", JStr(<<"A">>)>> >>)>> >>)
Popular(edges) ==
    JObj(<< <<"data", JObj(<< <<"popularTitles", JObj(<< <<"edges", edges>> >>)>> >>)>> >>)
SearchBodies ==
    { None,
      JList(<<>>),
      JList(<<EmptyObj>>),
      EmptyObj,
      JObj(<< <<"errors", JList(<<EmptyObj>>)>> >>),
      JObj(<< <<"data", None>> >>),
      JObj(<< <<"data", JObj(<< <<"popularTitles", None>> >>)>> >>),
      Popular(JList(<<>>)),
      Popular(JList(<<EmptyObj>>)),
      Popular(JList(<<Edge(JObj(<< <<"id", JStr(<<"1">>)>> >>))>>)),
      Popular(JList(<<Edge(Node(JStr(<<"1">>)))>>)),
      Popular(JList(<<Edge(Node(JStr(<<"2">>))), Edge(Node(JStr(<<"1">>)))>>)),
      Popular(JList(<<Edge(Node(JStr(<<>>)))>>)) }

\* response bodies of the two mutations
Echo(key, title) ==
    JObj(<< <<"data", JObj(<< <<key, JObj(<< <<"title", title>> >>)>> >>)>> >>)
MutationKeys == {"setInSeenlist", "setInWatchlistV2"}
MutationBodies ==
    { None,
      JList(<<EmptyObj>>),
      EmptyObj,
      JObj(<< <<"data", None>> >>) }
    \cup { JObj(<< <<"data", JObj(<< <<k, None>> >>)>> >>) : k \in MutationKeys }
    \cup { Echo(k, t) : k \in MutationKeys,
                        t \in { JObj(<< <<"id", JStr(<<"1">>)>> >>),
                                JObj(<< <<"name", JStr(<<"A">>)>> >>),
                                EmptyObj,
                                None } }

Outcomes(bodies) == TransportFailures \cup { [kind |-> "json", body |-> b] : b \in bodies }

(* ------------------------------ state --------------------------------- *)
Unbound == [t |-> "unbound"]
NoRequest == [op |-> "none"]
NoOutcome == [kind |-> "none", body |-> None]

\* a run of main seen from outside: where it is, whether imdb_title is bound,
\* the processed count, the rows read, the searches posted, and the rows for
\* which a mutation was posted and after which the delay was taken
NewRun ==
    [pc |-> "start", bound |-> FALSE, entries_processed |-> 0, rows_read |-> 0,
     searches |-> <<>>, mutated |-> <<>>, slept |-> <<>>]

VARIABLES
    mode,               \* "seen": import_seenlist.main, "watch": import_watchlist.main
    file_exists,        \* os.path.exists(CSV_FILE_PATH)
    env_token,          \* os.getenv("JUSTWATCH_AUTH_TOKEN")
    header,             \* csv_reader.fieldnames
    pc,                 \* position of main
    client,             \* the JustWatchClient, Unbound before construction
    rows_read,          \* data rows taken from csv_reader so far
    imdb_title,         \* main's local, Unbound until first assigned
    imdb_type_str,
    imdb_year_str,
    entries_processed,
    justwatch_type,     \* locals of process_*_entry
    year_int,
    justwatch_id,
    request,            \* variables of the last request posted
    response,           \* outcome of the last request posted
    added,              \* value returned by the last mutation call
    fault,              \* where the exception being handled was raised
    row_delegated,      \* the current row reached process_*_entry
    row_slept,          \* sleep() was called after the current row
    row_search,         \* requests posted for the current row
    row_mutate,
    n_titled,           \* rows read whose trimmed title is not empty
    n_delegated,
    n_search,
    n_resolved,         \* searches that returned a truthy identifier
    n_mutate,
    n_sleep,
    req_since_sleep,    \* row of the last request posted since the last sleep
    unpaced,            \* a request followed another row's with no sleep between
    seen_run,           \* import_seenlist.main, run beside watch_run on the same input
    watch_run           \* import_watchlist.main

env == <<mode, file_exists, env_token, header>>
locals == <<imdb_type_str, imdb_year_str, justwatch_type, year_int, justwatch_id>>
wire == <<request, response, added>>
rowobs == <<row_delegated, row_slept, row_search, row_mutate>>
totals == <<n_titled, n_delegated, n_search, n_resolved, n_mutate, n_sleep>>
pacing == <<req_since_sleep, unpaced>>
pair == <<seen_run, watch_run>>
vars == <<env, pair, pc, client, rows_read, imdb_title, entries_processed, locals, wire,
          fault, rowobs, totals, pacing>>

Init ==
    /\ mode \in {"seen", "watch"}
    /\ file_exists \in BOOLEAN
    /\ env_token \in Tokens
    /\ header \in Headers
    /\ pc = "start"
    /\ client = Unbound
    /\ rows_read = 0
    /\ imdb_title = Unbound
    /\ imdb_type_str = Unbound
    /\ imdb_year_str = Unbound
    /\ entries_processed = 0
    /\ justwatch_type = Unbound
    /\ year_int = Unbound
    /\ justwatch_id = Unbound
    /\ request = NoRequest
    /\ response = NoOutcome
    /\ added = FALSE
    /\ fault = "none"
    /\ row_delegated = FALSE
    /\ row_slept = FALSE
    /\ row_search = 0
    /\ row_mutate = 0
    /\ n_titled = 0
    /\ n_delegated = 0
    /\ n_search = 0
    /\ n_resolved = 0
    /\ n_mutate = 0
    /\ n_sleep = 0
    /\ req_since_sleep = 0
    /\ unpaced = FALSE
    /\ seen_run = NewRun
    /\ watch_run = NewRun

(* -------------------- main: setup (lines 58-88) ----------------------- *)
\* os.path.exists(CSV_FILE_PATH)
CheckSource ==
    /\ pc = "start"
    /\ IF file_exists
       THEN pc' = "client" /\ fault' = fault
       ELSE pc' = "setup_abort" /\ fault' = "no_file"
    /\ UNCHANGED <<env, pair, client, rows_read, imdb_title, entries_processed, locals,
                   wire, rowobs, totals, pacing>>

\* client = JustWatchClient(...), ValueError caught; entries_processed = 0
MakeClient ==
    /\ pc = "client"
    /\ LET made == JustWatchClient(DEFAULT_COUNTRY, DEFAULT_LANGUAGE, env_token)
       IN IF made.ok
          THEN /\ client' = made.v
               /\ pc' = "open"
               /\ fault' = fault
          ELSE /\ client' = client
               /\ pc' = "setup_abort"
               /\ fault' = "no_token"
    /\ entries_processed' = 0
    /\ UNCHANGED <<env, pair, rows_read, imdb_title, locals, wire, rowobs, totals, pacing>>

InHeader(col) == \E i \in 1..Len(header) : header[i] = col

\* mutant: only the title column is required
missing_columns_title_only ==
    SelectSeq(<<IMDB_TITLE_COLUMN>>, LAMBDA col : ~InHeader(col))

missing_columns == SelectSeq(required_columns, LAMBDA col : ~InHeader(col))

\* open the file, read the header, check the required columns
ValidateSource ==
    /\ pc = "open"
    /\ IF header = <<>>
       THEN pc' = "setup_abort" /\ fault' = "no_header"
       ELSE IF missing_columns # <<>>
       THEN pc' = "setup_abort" /\ fault' = "missing_columns"
       ELSE pc' = "iter" /\ fault' = fault
    /\ UNCHANGED <<env, pair, client, rows_read, imdb_title, entries_processed, locals,
                   wire, rowobs, totals, pacing>>

(* ------------------ main: the row loop (lines 90-112) ----------------- *)
ColumnIndex(col) == CHOOSE i \in 1..Len(header) : header[i] = col

\* row.get(col, ""): the default only for a column the header lacks;
\* csv.DictReader fills the cells a short row lacks with None
row_get(n, col, cell) ==
    IF ~InHeader(col) THEN JStr(<<>>)
    ELSE IF ColumnIndex(col) <= n THEN JStr(cell)
    ELSE None

\* x.strip(): AttributeError on None
strip_cell(x) == IF x.t = "str" THEN Ret(JStr(strip(x.s))) ELSE Raise

\* the next row of csv_reader, the three assignments and the empty-title test
ReadRow ==
    /\ pc = "iter"
    /\ rows_read < MaxRows
    /\ \E n \in 1..Len(header), t \in TitleCells, ty \in TypeCells, y \in YearCells :
         LET title == strip_cell(row_get(n, IMDB_TITLE_COLUMN, t))
             type == strip_cell(row_get(n, IMDB_TYPE_COLUMN, ty))
             year == strip_cell(row_get(n, IMDB_YEAR_COLUMN, y))
             raised == ~(title.ok /\ type.ok /\ year.ok)
         IN /\ imdb_title' = IF title.ok THEN title.v
                             ELSE IF mode = "watch" THEN JStr(<<>>)
                             ELSE imdb_title
            /\ imdb_type_str' = IF title.ok /\ type.ok THEN type.v ELSE Unbound
            /\ imdb_year_str' = IF ~raised THEN year.v ELSE Unbound
            /\ n_titled' = IF Truthy(title.v) THEN n_titled + 1 ELSE n_titled
            /\ IF raised THEN pc' = "except" /\ fault' = "extract"
               ELSE IF ~Truthy(title.v) THEN pc' = "iter" /\ fault' = fault
               ELSE pc' = "process" /\ fault' = fault
    /\ rows_read' = rows_read + 1
    /\ row_delegated' = FALSE
    /\ row_slept' = FALSE
    /\ row_search' = 0
    /\ row_mutate' = 0
    /\ UNCHANGED <<env, pair, client, entries_processed, justwatch_type, year_int,
                   justwatch_id, wire, n_delegated, n_search, n_resolved, n_mutate,
                   n_sleep, pacing>>

\* process_*_entry up to the search (lines 29-41)
Process ==
    /\ pc = "process"
    /\ row_delegated' = TRUE
    /\ n_delegated' = n_delegated + 1
    /\ justwatch_type' = map_imdb_type_to_justwatch(imdb_type_str.s)
    /\ IF ~Truthy(justwatch_type')
       THEN pc' = "post" /\ year_int' = year_int
       ELSE /\ pc' = "search"
            /\ year_int' = LET parsed == int_of_str(imdb_year_str.s)
                           IN IF parsed.ok THEN parsed.v ELSE None
    /\ UNCHANGED <<env, pair, client, rows_read, imdb_title, imdb_type_str, imdb_year_str,
                   entries_processed, justwatch_id, wire, fault, row_slept,
                   row_search, row_mutate, n_titled, n_search, n_resolved, n_mutate,
                   n_sleep, pacing>>

\* a request of the current row goes out
Posted ==
    /\ unpaced' = (unpaced \/ req_since_sleep \notin {0, rows_read})
    /\ req_since_sleep' = rows_read

\* client.get_title_id(...) and the test of its result (lines 43-45, 51-52)
Search ==
    /\ pc = "search"
    /\ request' = search_variables(client, imdb_title.s, justwatch_type.s, year_int)
    /\ Posted
    /\ n_search' = n_search + 1
    /\ row_search' = row_search + 1
    /\ \E outcome \in Outcomes(SearchBodies) :
         LET found == get_title_id(_make_request(outcome))
         IN /\ response' = outcome
            /\ IF ~found.ok
               THEN /\ pc' = "except" /\ fault' = "search"
                    /\ UNCHANGED <<justwatch_id, n_resolved>>
               ELSE /\ justwatch_id' = found.v
                    /\ fault' = fault
                    /\ IF Truthy(found.v)
                       THEN pc' = "mutate" /\ n_resolved' = n_resolved + 1
                       ELSE pc' = "post" /\ n_resolved' = n_resolved
    /\ UNCHANGED <<env, pair, client, rows_read, imdb_title, imdb_type_str, imdb_year_str,
                   entries_processed, justwatch_type, year_int, added, row_delegated,
                   row_slept, row_mutate, n_titled, n_delegated, n_mutate, n_sleep>>

\* the mutation of the mode (lines 47-50)
\* mutant: the two importers call each other's mutation
mutation_variables_swapped(m, c, id) ==
    IF m = "seen" THEN watchlist_variables(c, id) ELSE seenlist_variables(c, id)

mutation_variables(m, c, id) ==
    IF m = "seen" THEN seenlist_variables(c, id) ELSE watchlist_variables(c, id)
mutation_call(m, response_data) ==
    IF m = "seen" THEN add_to_seenlist(response_data) ELSE add_to_watchlist(response_data)

\* mutant: a failed mutation is tried again
Mutate_retry ==
    /\ pc = "mutate"
    /\ request' = mutation_variables(mode, client, justwatch_id)
    /\ Posted
    /\ n_mutate' = n_mutate + 1
    /\ row_mutate' = row_mutate + 1
    /\ \E outcome \in Outcomes(MutationBodies) :
         LET done == mutation_call(mode, _make_request(outcome))
         IN /\ response' = outcome
            /\ IF ~done.ok
               THEN pc' = "except" /\ fault' = "mutate" /\ added' = added
               ELSE /\ pc' = IF done.v THEN "post" ELSE "mutate"
                    /\ fault' = fault /\ added' = done.v
    /\ UNCHANGED <<env, pair, client, rows_read, imdb_title, imdb_type_str, imdb_year_str,
                   entries_processed, justwatch_type, year_int, justwatch_id,
                   row_delegated, row_slept, row_search, n_titled, n_delegated,
                   n_search, n_resolved, n_sleep>>

Mutate ==
    /\ pc = "mutate"
    /\ request' = mutation_variables(mode, client, justwatch_id)
    /\ Posted
    /\ n_mutate' = n_mutate + 1
    /\ row_mutate' = row_mutate + 1
    /\ \E outcome \in Outcomes(MutationBodies) :
         LET done == mutation_call(mode, _make_request(outcome))
         IN /\ response' = outcome
            /\ IF ~done.ok
               THEN pc' = "except" /\ fault' = "mutate" /\ added' = added
               ELSE pc' = "post" /\ fault' = fault /\ added' = done.v
    /\ UNCHANGED <<env, pair, client, rows_read, imdb_title, imdb_type_str, imdb_year_str,
                   entries_processed, justwatch_type, year_int, justwatch_id,
                   row_delegated, row_slept, row_search, n_titled, n_delegated,
                   n_search, n_resolved, n_sleep>>

\* the row is over: its locals and the last exchange are dropped
RowOver ==
    /\ imdb_type_str' = Unbound
    /\ imdb_year_str' = Unbound
    /\ justwatch_type' = Unbound
    /\ year_int' = Unbound
    /\ justwatch_id' = Unbound
    /\ request' = NoRequest
    /\ response' = NoOutcome
    /\ added' = FALSE

\* entries_processed += 1, then sleep(REQUEST_DELAY_SECONDS) (lines 103, 111-112)
PostRow ==
    /\ pc = "post"
    /\ entries_processed' = entries_processed + 1
    /\ n_sleep' = n_sleep + REQUEST_DELAY_SECONDS
    /\ row_slept' = TRUE
    /\ req_since_sleep' = 0
    /\ pc' = "iter"
    /\ RowOver
    /\ UNCHANGED <<env, pair, client, rows_read, imdb_title, fault, row_delegated,
                   row_search, row_mutate, n_titled, n_delegated, n_search,
                   n_resolved, n_mutate, unpaced>>

\* except Exception: logger.exception(f"... ('{imdb_title or 'N/A'}')"); continue
\* (lines 105-109).  Reading an unbound imdb_title raises UnboundLocalError in
\* the handler, which the outer except of main catches (lines 117-119).
HandleRowException ==
    /\ pc = "except"
    /\ IF imdb_title = Unbound
       THEN pc' = "aborted" /\ fault' = "handler"
       ELSE pc' = "iter" /\ fault' = "none"
    /\ RowOver
    /\ UNCHANGED <<env, pair, client, rows_read, imdb_title, entries_processed, rowobs,
                   totals, pacing>>

\* csv_reader raises csv.Error while producing the next row (lines 117-119)
ReaderFault ==
    /\ pc = "iter"
    /\ rows_read < MaxRows
    /\ pc' = "aborted"
    /\ fault' = "reader"
    /\ UNCHANGED <<env, pair, client, rows_read, imdb_title, entries_processed, locals,
                   wire, rowobs, totals, pacing>>

\* csv_reader is exhausted: the summary is logged (lines 121-123)
Summarize ==
    /\ pc = "iter"
    /\ pc' = "done"
    /\ UNCHANGED <<env, pair, client, rows_read, imdb_title, entries_processed, locals,
                   wire, fault, rowobs, totals, pacing>>

Next ==
    \/ CheckSource
    \/ MakeClient
    \/ ValidateSource
    \/ ReadRow
    \/ Process
    \/ Search
    \/ Mutate
    \/ PostRow
    \/ HandleRowException
    \/ ReaderFault
    \/ Summarize

Spec == Init /\ [][Next]_vars

(* ----------- the two importers side by side on one input -------------- *)
\* the rest of the state, which a side-by-side run leaves alone
single == <<pc, client, rows_read, imdb_title, entries_processed, locals, wire,
            fault, rowobs, totals, pacing>>

\* main up to the row loop (import_seenlist.py 58-88, import_watchlist.py 58-91)
run_setup ==
    IF ~file_exists THEN "setup_abort"
    ELSE IF ~JustWatchClient(DEFAULT_COUNTRY, DEFAULT_LANGUAGE, env_token).ok
    THEN "setup_abort"
    ELSE IF header = <<>> THEN "setup_abort"
    ELSE IF missing_columns # <<>> THEN "setup_abort"
    ELSE "iter"

\* inputs of a side-by-side row: cells, and the outcome of each request
PairTypeCells == { Movie, <<"S", "h", "o", "r", "t">> }
PairYearCells == { <<>>, <<"1", "9", "9", "9">> }
PairSearchOutcomes ==
    { [kind |-> "conn_fail", body |-> None],
      [kind |-> "json", body |-> JObj(<< <<"data", None>> >>)],
      [kind |-> "json", body |-> Popular(JList(<<>>))],
      [kind |-> "json", body |-> Popular(JList(<<Edge(Node(JStr(<<"1">>)))>>))] }
MutationShapes == {"conn_fail", "data_null", "set_null", "echo", "echo_empty"}

\* the key each importer's mutation reads in the response (api.py 306, 332)
mutation_key(m) == IF m = "seen" THEN "setInSeenlist" ELSE "setInWatchlistV2"

\* the same answer of the catalog, under the key of the mutation that was called
mutation_outcome(shape, key) ==
    CASE shape = "conn_fail" -> [kind |-> "conn_fail", body |-> None]
      [] shape = "data_null" -> [kind |-> "json", body |-> JObj(<< <<"data", None>> >>)]
      [] shape = "set_null" ->
            [kind |-> "json", body |-> JObj(<< <<"data", JObj(<< <<key, None>> >>)>> >>)]
      [] shape = "echo" ->
            [kind |-> "json", body |-> Echo(key, JObj(<< <<"id", JStr(<<"1">>)>> >>))]
      [] shape = "echo_empty" -> [kind |-> "json", body |-> Echo(key, EmptyObj)]

\* one pass of the loop body of main (import_seenlist.py 90-112,
\* import_watchlist.py 93-116) with process_*_entry inlined: the run after a
\* row of n cells, given the outcome of the search and the shape of the
\* mutation's answer
handle_row(m, run, n, t, ty, y, search_outcome, shape) ==
    LET made == JustWatchClient(DEFAULT_COUNTRY, DEFAULT_LANGUAGE, env_token).v
        row == run.rows_read + 1
        title == strip_cell(row_get(n, IMDB_TITLE_COLUMN, t))
        type == strip_cell(row_get(n, IMDB_TYPE_COLUMN, ty))
        year == strip_cell(row_get(n, IMDB_YEAR_COLUMN, y))
        \* import_watchlist binds imdb_title = "" before the try
        bound == run.bound \/ m = "watch" \/ title.ok
        read == [run EXCEPT !.rows_read = row, !.bound = bound]
        \* the handler reads imdb_title: unbound, it raises into the outer except
        caught(r) == IF bound THEN r ELSE [r EXCEPT !.pc = "aborted"]
        counted(r) == [r EXCEPT !.entries_processed = @ + 1, !.slept = Append(@, row)]
        mapped == map_imdb_type_to_justwatch(type.v.s)
        parsed == int_of_str(year.v.s)
        release_year == IF parsed.ok THEN parsed.v ELSE None
        searched ==
            [read EXCEPT !.searches =
                Append(@, search_variables(made, title.v.s, mapped.s, release_year))]
        found == get_title_id(_make_request(search_outcome))
        mutated == [searched EXCEPT !.mutated = Append(@, row)]
        done == mutation_call(m, _make_request(mutation_outcome(shape, mutation_key(m))))
    IN IF ~(title.ok /\ type.ok /\ year.ok) THEN caught(read)
       ELSE IF ~Truthy(title.v) THEN read
       ELSE IF ~Truthy(mapped) THEN counted(read)
       ELSE IF ~found.ok THEN caught(searched)
       ELSE IF ~Truthy(found.v) THEN counted(searched)
       ELSE IF ~done.ok THEN caught(mutated)
       ELSE counted(mutated)

InLoop(run) == run.pc = "iter"

PairSetup ==
    /\ seen_run.pc = "start" /\ watch_run.pc = "start"
    /\ seen_run' = [seen_run EXCEPT !.pc = run_setup]
    /\ watch_run' = [watch_run EXCEPT !.pc = run_setup]
    /\ UNCHANGED <<env, single>>

\* both readers yield the same next row, and the catalog answers both alike
PairRow ==
    /\ InLoop(seen_run) \/ InLoop(watch_run)
    /\ watch_run.rows_read < MaxRows /\ seen_run.rows_read < MaxRows
    /\ \E n \in 1..Len(header), t \in TitleCells, ty \in PairTypeCells,
          y \in PairYearCells, o \in PairSearchOutcomes, shape \in MutationShapes :
         /\ seen_run' = IF InLoop(seen_run)
                        THEN handle_row("seen", seen_run, n, t, ty, y, o, shape)
                        ELSE seen_run
         /\ watch_run' = IF InLoop(watch_run)
                         THEN handle_row("watch", watch_run, n, t, ty, y, o, shape)
                         ELSE watch_run
    /\ UNCHANGED <<env, single>>

\* both readers raise csv.Error on the same row
PairReaderFault ==
    /\ InLoop(seen_run) \/ InLoop(watch_run)
    /\ watch_run.rows_read < MaxRows /\ seen_run.rows_read < MaxRows
    /\ seen_run' = IF InLoop(seen_run) THEN [seen_run EXCEPT !.pc = "aborted"]
                   ELSE seen_run
    /\ watch_run' = IF InLoop(watch_run) THEN [watch_run EXCEPT !.pc = "aborted"]
                    ELSE watch_run
    /\ UNCHANGED <<env, single>>

\* both readers are exhausted: the runs still in the loop log their summary
PairEnd ==
    /\ InLoop(seen_run) \/ InLoop(watch_run)
    /\ seen_run' = IF InLoop(seen_run) THEN [seen_run EXCEPT !.pc = "done"]
                   ELSE seen_run
    /\ watch_run' = IF InLoop(watch_run) THEN [watch_run EXCEPT !.pc = "done"]
                    ELSE watch_run
    /\ UNCHANGED <<env, single>>

NextPair ==
    \/ PairSetup
    \/ PairRow
    \/ PairReaderFault
    \/ PairEnd

SpecPair == Init /\ [][NextPair]_vars

(* ------------------------------ claims -------------------------------- *)
\* s has p as a substring, stated by position
HasSub(s, p) == \E i \in 1..(Len(s) - Len(p) + 1) : SubSeq(s, i, i + Len(p) - 1) = p

\* a mutation has been called for the current row and has ended
MutationEnded == row_mutate > 0 /\ pc \in {"post", "except"}

\* C1: no exception escapes the Catalog Client: whatever the outcome of the
\* HTTP call, get_title_id and the two mutations return and never raise, so
\* the row loop never handles a fault raised by a client call.
C1_ClientNeverRaises == ~(pc = "except" /\ fault \in {"search", "mutate"})

\* C2: one bad row never stops the batch: whenever extracting the fields of a
\* row or processing it raised, the guard of the row loop logs the failure and
\* the loop goes on with the next row.
C2_BadRowNeverStopsBatch == [][pc = "except" => pc' = "iter"]_vars

\* C3: pacing: back at the head of the loop, a row that reached delegation has
\* been followed by the delay, and no request was posted after a request of
\* another row without a delay between them.
C3_DelayAfterEveryDelegatedRow ==
    /\ (pc = "iter" /\ row_delegated) => row_slept
    /\ ~unpaced

\* the response carries data.<key>.title, an object with an id
EchoesTitle(outcome, key) ==
    /\ outcome.kind = "json"
    /\ outcome.body.t = "obj" /\ HasKey(outcome.body.m, "data")
    /\ LET data == ValueOf(outcome.body.m, "data") IN
       /\ data.t = "obj" /\ HasKey(data.m, key)
       /\ LET set == ValueOf(data.m, key) IN
          /\ set.t = "obj" /\ HasKey(set.m, "title")
          /\ LET title == ValueOf(set.m, "title") IN
             title.t = "obj" /\ HasKey(title.m, "id")

MutationKey == IF mode = "seen" THEN "setInSeenlist" ELSE "setInWatchlistV2"

\* C4: a mutation call returns (it does not raise), and it returns success
\* if and only if the response carries data.<key>.title with an id.
C4_SuccessIffTitleEchoed ==
    MutationEnded => (pc = "post" /\ (added <=> EchoesTitle(response, MutationKey)))

SetupError ==
    \/ ~file_exists
    \/ ~Truthy(env_token)
    \/ header = <<>>
    \/ \E i \in 1..Len(required_columns) : ~InHeader(required_columns[i])

\* C5: with a missing file, an absent or empty credential, no header or a
\* missing required column, the run never leaves the setup: no row is read,
\* no request is posted, nothing is counted and no summary is logged; a
\* missing file ends the run before the client is built, a missing credential
\* before the file is opened.
C5_SetupErrorsShortCircuit ==
    SetupError =>
        /\ pc \in {"start", "client", "open", "setup_abort"}
        /\ (~file_exists => pc \in {"start", "setup_abort"})
        /\ (~Truthy(env_token) => pc # "open")
        /\ rows_read = 0
        /\ n_search = 0 /\ n_mutate = 0
        /\ n_delegated = 0 /\ entries_processed = 0

C5_Witness ==
    /\ pc = "setup_abort" /\ fault = "missing_columns"
    /\ file_exists /\ Truthy(env_token) /\ header # <<>>

\* C6: the count logged by the summary is the number of data rows whose
\* trimmed title is not empty.
C6_ProcessedEqualsTitledRows == pc = "done" => entries_processed = n_titled

\* the label has neither "Movie" nor "Series" in it
Unmapped(label) == ~HasSub(label, Movie) /\ ~HasSub(label, Series)

\* C7: a delegated record whose label contains neither "Movie" nor "Series"
\* goes from the mapper straight to the end of the row: no search and no
\* mutation is posted for it, and it is counted as processed.
C7_UnmappedNeverSent ==
    [][(pc \in {"process", "search", "mutate", "post"} /\ Unmapped(imdb_type_str.s)) =>
          /\ pc \in {"process", "post"}
          /\ (pc = "process") => (pc' = "post")
          /\ (pc = "post") => (entries_processed' = entries_processed + 1)
          /\ row_search = 0 /\ row_mutate = 0
          /\ n_search' = n_search /\ n_mutate' = n_mutate]_vars

C7_Witness ==
    /\ pc = "post" /\ row_delegated
    /\ Unmapped(imdb_type_str.s) /\ imdb_type_str.s # <<>>
    /\ justwatch_type = None
    /\ row_search = 0 /\ row_mutate = 0

\* C8: a record gets at most one search and at most one mutation, also after
\* a not-found result or a failed mutation; over the run, mutations <=
\* successful resolutions <= delegated rows.
C8_AtMostOneAttempt ==
    /\ row_search <= 1 /\ row_mutate <= 1
    /\ row_mutate <= row_search
    /\ n_mutate <= n_resolved
    /\ n_resolved <= n_search
    /\ n_search <= n_delegated
    /\ n_delegated <= rows_read

C8_Witness ==
    /\ pc = "post" /\ row_mutate = 1 /\ ~added
    /\ n_mutate = 2 /\ n_resolved = 2

\* the mapper's result for the label, as the claim states it
TypeBound == justwatch_type # Unbound /\ imdb_type_str # Unbound

\* C9 as stated: every label containing "Movie" maps to MOVIE, every label
\* containing "Series" maps to SHOW, every other label to undefined.
C9_Original ==
    TypeBound =>
        /\ HasSub(imdb_type_str.s, Movie) => justwatch_type = JStr(MOVIE)
        /\ HasSub(imdb_type_str.s, Series) => justwatch_type = JStr(SHOW)
        /\ Unmapped(imdb_type_str.s) => justwatch_type = None

\* C9 amended: every label containing "Movie" maps to MOVIE, every label
\* containing "Series" and not "Movie" maps to SHOW, every other label to
\* undefined.
C9_MovieRuleFirst ==
    TypeBound =>
        /\ HasSub(imdb_type_str.s, Movie) => justwatch_type = JStr(MOVIE)
        /\ (HasSub(imdb_type_str.s, Series) /\ ~HasSub(imdb_type_str.s, Movie))
              => justwatch_type = JStr(SHOW)
        /\ Unmapped(imdb_type_str.s) => justwatch_type = None

C9_Witness ==
    /\ TypeBound
    /\ HasSub(imdb_type_str.s, Movie) /\ HasSub(imdb_type_str.s, Series)
    /\ justwatch_type = JStr(MOVIE)

MutationOps == {"add_to_seenlist", "add_to_watchlist"}

\* C10: a mutation request follows a search of the same record that returned
\* an identifier and carries that identifier; a watched-history run posts only
\* add_to_seenlist, a want-to-watch run only add_to_watchlist; after a search
\* that returned no identifier the record gets no mutation.
C10_ResolveThenMutate ==
    /\ request.op \in MutationOps =>
          /\ row_search = 1
          /\ Truthy(justwatch_id)
          /\ request.id = justwatch_id
          /\ request.op = IF mode = "seen" THEN "add_to_seenlist" ELSE "add_to_watchlist"
    /\ (justwatch_id # Unbound /\ ~Truthy(justwatch_id)) =>
          row_mutate = 0 /\ pc = "post"

C10_Witness ==
    /\ request.op = "add_to_seenlist"
    /\ request.id = JStr(<<"2">>)
    /\ pc = "post" /\ added

\* a request is on the wire
Outbound == request.op # "none"

\* short is long up to, and without, its first "-"
PrimarySubtag(short, long) ==
    /\ \A i \in 1..Len(short) : short[i] # "-"
    /\ Len(short) <= Len(long)
    /\ SubSeq(long, 1, Len(short)) = short
    /\ Len(short) < Len(long) => long[Len(short) + 1] = "-"

\* C11 as stated: every outbound request (search, add_to_seenlist,
\* add_to_watchlist) carries the client's country code and language tag
\* unchanged.
C11_Original ==
    Outbound =>
        /\ request.hasCountry /\ request.country = client.country
        /\ request.hasLanguage /\ request.language = client.language

\* C11 amended: the client's country and language never change after
\* construction; the search carries the country unchanged and the language
\* tag cut before its first "-"; add_to_seenlist carries both unchanged;
\* add_to_watchlist carries neither.
C11_SessionPerRequest ==
    /\ client # Unbound =>
          client.country = DEFAULT_COUNTRY /\ client.language = DEFAULT_LANGUAGE
    /\ request.op = "search" =>
          /\ request.hasCountry /\ request.country = client.country
          /\ request.hasLanguage /\ PrimarySubtag(request.language, client.language)
    /\ request.op = "add_to_seenlist" =>
          /\ request.hasCountry /\ request.country = client.country
          /\ request.hasLanguage /\ request.language = client.language
    /\ request.op = "add_to_watchlist" =>
          ~request.hasCountry /\ ~request.hasLanguage

C11_Witness ==
    /\ request.op = "add_to_seenlist"
    /\ request.country = <<"U", "S">>
    /\ request.language = <<"e", "n", "-", "U", "S">>
    /\ row_search = 1

\* the text is an optional sign followed by digits only
IntegerText(s) ==
    \/ AllDigits(s)
    \/ s # <<>> /\ Head(s) \in {"+", "-"} /\ AllDigits(Tail(s))

\* C12: the search of a record carries the bound min = max = y exactly when
\* the year field is the text of an integer y, zero and negative values
\* included, and carries no bound when the field is blank or not an integer.
C12_YearBoundIffInteger ==
    request.op = "search" =>
        /\ request.hasYear <=> IntegerText(imdb_year_str.s)
        /\ request.hasYear =>
              /\ request.releaseYear.min = int_of_str(imdb_year_str.s).v.n
              /\ request.releaseYear.max = request.releaseYear.min

\* C13: a required cell that a short row lacks is read as the empty string,
\* so extracting the three fields of a row never raises.
C13_MissingCellIsEmpty == ~(pc = "except" /\ fault = "extract")

\* C14: run side by side on the same rows, credential and catalog answers,
\* the two importers post the same searches, post a mutation for the same
\* rows, take the delay after the same rows, are in the same run state and
\* have the same processed count.
C14_ImportersEquivalent ==
    /\ seen_run.searches = watch_run.searches
    /\ seen_run.mutated = watch_run.mutated
    /\ seen_run.slept = watch_run.slept
    /\ seen_run.pc = watch_run.pc
    /\ seen_run.entries_processed = watch_run.entries_processed

====
